---- MODULE Spec2Model ----
(***************************************************************************)
(* A model of package pulse (src/pulse/pulse.go): credential resolution in *)
(* NewConnection and the broker set-up and delivery loop of Consume.       *)
(*                                                                         *)
(* Strings are sequences of runes, each written as a string.  The regular  *)
(* expressions of the source are kept as programs for a backtracking       *)
(* matcher with Go's leftmost-first preference, and replacement templates  *)
(* are expanded as regexp.Expand does.                                     *)
(***************************************************************************)
EXTENDS Integers, Sequences, FiniteSets, TLC

\* ------------------------------------------------------------------------
\* Strings
\* ------------------------------------------------------------------------

\* A rune of ASCII is written as itself, any other rune by its code point in
\* hexadecimal: "U+00E9" for e-acute.

\* the printable characters of ASCII in code order, from the space (32) to
\* the underscore (95)
AsciiLow == " !\"#$%&'()*+,-./0123456789:;<=>?@ABCDEFGHIJKLMNOPQRSTUVWXYZ[\\]^_"

\* and from a (97) to the tilde (126)
AsciiHigh == "abcdefghijklmnopqrstuvwxyz{|}~"

\* the place of the character c in the string s, 0 when it is not in it
Place(c, s) ==
    IF \E n \in 1..Len(s) : SubSeq(s, n, n) = c
    THEN CHOOSE n \in 1..Len(s) : SubSeq(s, n, n) = c
    ELSE 0

\* the value of a hexadecimal digit
HexVal(h) == CHOOSE v \in 0..15 : SubSeq("0123456789ABCDEF", v + 1, v + 1) = h

RECURSIVE HexNum(_, _)
\* the number the hexadecimal digits h spell, after the digits that gave acc
HexNum(h, acc) ==
    IF Len(h) = 0 THEN acc
    ELSE HexNum(SubSeq(h, 2, Len(h)), acc * 16 + HexVal(SubSeq(h, 1, 1)))

\* the code point of a rune
CodePoint(c) ==
    IF c = "\t" THEN 9
    ELSE IF c = "\n" THEN 10
    ELSE IF Place(c, AsciiLow) > 0 THEN 31 + Place(c, AsciiLow)
    ELSE IF Place(c, AsciiHigh) > 0 THEN 96 + Place(c, AsciiHigh)
    ELSE HexNum(SubSeq(c, 3, Len(c)), 0)

\* The tables of package unicode are those of the Go release that builds the
\* program: here a release from Go 1.16 to Go 1.20, whose tables are those of
\* Unicode 13.0.0.

\* unicode.Letter: the ranges of code points of category L
Letter ==
    {<<65, 90>>, <<97, 122>>, <<170, 170>>, <<181, 181>>, <<186, 186>>,
     <<192, 214>>, <<216, 246>>, <<248, 705>>, <<710, 721>>, <<736, 740>>,
     <<748, 748>>, <<750, 750>>, <<880, 884>>, <<886, 887>>, <<890, 893>>,
     <<895, 895>>, <<902, 902>>, <<904, 906>>, <<908, 908>>, <<910, 929>>,
     <<931, 1013>>, <<1015, 1153>>, <<1162, 1327>>, <<1329, 1366>>,
     <<1369, 1369>>, <<1376, 1416>>, <<1488, 1514>>, <<1519, 1522>>,
     <<1568, 1610>>, <<1646, 1647>>, <<1649, 1747>>, <<1749, 1749>>,
     <<1765, 1766>>, <<1774, 1775>>, <<1786, 1788>>, <<1791, 1791>>,
     <<1808, 1808>>, <<1810, 1839>>, <<1869, 1957>>, <<1969, 1969>>,
     <<1994, 2026>>, <<2036, 2037>>, <<2042, 2042>>, <<2048, 2069>>,
     <<2074, 2074>>, <<2084, 2084>>, <<2088, 2088>>, <<2112, 2136>>,
     <<2144, 2154>>, <<2208, 2228>>, <<2230, 2247>>, <<2308, 2361>>,
     <<2365, 2365>>, <<2384, 2384>>, <<2392, 2401>>, <<2417, 2432>>,
     <<2437, 2444>>, <<2447, 2448>>, <<2451, 2472>>, <<2474, 2480>>,
     <<2482, 2482>>, <<2486, 2489>>, <<2493, 2493>>, <<2510, 2510>>,
     <<2524, 2525>>, <<2527, 2529>>, <<2544, 2545>>, <<2556, 2556>>,
     <<2565, 2570>>, <<2575, 2576>>, <<2579, 2600>>, <<2602, 2608>>,
     <<2610, 2611>>, <<2613, 2614>>, <<2616, 2617>>, <<2649, 2652>>,
     <<2654, 2654>>, <<2674, 2676>>, <<2693, 2701>>, <<2703, 2705>>,
     <<2707, 2728>>, <<2730, 2736>>, <<2738, 2739>>, <<2741, 2745>>,
     <<2749, 2749>>, <<2768, 2768>>, <<2784, 2785>>, <<2809, 2809>>,
     <<2821, 2828>>, <<2831, 2832>>, <<2835, 2856>>, <<2858, 2864>>,
     <<2866, 2867>>, <<2869, 2873>>, <<2877, 2877>>, <<2908, 2909>>,
     <<2911, 2913>>, <<2929, 2929>>, <<2947, 2947>>, <<2949, 2954>>,
     <<2958, 2960>>, <<2962, 2965>>, <<2969, 2970>>, <<2972, 2972>>,
     <<2974, 2975>>, <<2979, 2980>>, <<2984, 2986>>, <<2990, 3001>>,
     <<3024, 3024>>, <<3077, 3084>>, <<3086, 3088>>, <<3090, 3112>>,
     <<3114, 3129>>, <<3133, 3133>>, <<3160, 3162>>, <<3168, 3169>>,
     <<3200, 3200>>, <<3205, 3212>>, <<3214, 3216>>, <<3218, 3240>>,
     <<3242, 3251>>, <<3253, 3257>>, <<3261, 3261>>, <<3294, 3294>>,
     <<3296, 3297>>, <<3313, 3314>>, <<3332, 3340>>, <<3342, 3344>>,
     <<3346, 3386>>, <<3389, 3389>>, <<3406, 3406>>, <<3412, 3414>>,
     <<3423, 3425>>, <<3450, 3455>>, <<3461, 3478>>, <<3482, 3505>>,
     <<3507, 3515>>, <<3517, 3517>>, <<3520, 3526>>, <<3585, 3632>>,
     <<3634, 3635>>, <<3648, 3654>>, <<3713, 3714>>, <<3716, 3716>>,
     <<3718, 3722>>, <<3724, 3747>>, <<3749, 3749>>, <<3751, 3760>>,
     <<3762, 3763>>, <<3773, 3773>>, <<3776, 3780>>, <<3782, 3782>>,
     <<3804, 3807>>, <<3840, 3840>>, <<3904, 3911>>, <<3913, 3948>>,
     <<3976, 3980>>, <<4096, 4138>>, <<4159, 4159>>, <<4176, 4181>>,
     <<4186, 4189>>, <<4193, 4193>>, <<4197, 4198>>, <<4206, 4208>>,
     <<4213, 4225>>, <<4238, 4238>>, <<4256, 4293>>, <<4295, 4295>>,
     <<4301, 4301>>, <<4304, 4346>>, <<4348, 4680>>, <<4682, 4685>>,
     <<4688, 4694>>, <<4696, 4696>>, <<4698, 4701>>, <<4704, 4744>>,
     <<4746, 4749>>, <<4752, 4784>>, <<4786, 4789>>, <<4792, 4798>>,
     <<4800, 4800>>, <<4802, 4805>>, <<4808, 4822>>, <<4824, 4880>>,
     <<4882, 4885>>, <<4888, 4954>>, <<4992, 5007>>, <<5024, 5109>>,
     <<5112, 5117>>, <<5121, 5740>>, <<5743, 5759>>, <<5761, 5786>>,
     <<5792, 5866>>, <<5873, 5880>>, <<5888, 5900>>, <<5902, 5905>>,
     <<5920, 5937>>, <<5952, 5969>>, <<5984, 5996>>, <<5998, 6000>>,
     <<6016, 6067>>, <<6103, 6103>>, <<6108, 6108>>, <<6176, 6264>>,
     <<6272, 6276>>, <<6279, 6312>>, <<6314, 6314>>, <<6320, 6389>>,
     <<6400, 6430>>, <<6480, 6509>>, <<6512, 6516>>, <<6528, 6571>>,
     <<6576, 6601>>, <<6656, 6678>>, <<6688, 6740>>, <<6823, 6823>>,
     <<6917, 6963>>, <<6981, 6987>>, <<7043, 7072>>, <<7086, 7087>>,
     <<7098, 7141>>, <<7168, 7203>>, <<7245, 7247>>, <<7258, 7293>>,
     <<7296, 7304>>, <<7312, 7354>>, <<7357, 7359>>, <<7401, 7404>>,
     <<7406, 7411>>, <<7413, 7414>>, <<7418, 7418>>, <<7424, 7615>>,
     <<7680, 7957>>, <<7960, 7965>>, <<7968, 8005>>, <<8008, 8013>>,
     <<8016, 8023>>, <<8025, 8025>>, <<8027, 8027>>, <<8029, 8029>>,
     <<8031, 8061>>, <<8064, 8116>>, <<8118, 8124>>, <<8126, 8126>>,
     <<8130, 8132>>, <<8134, 8140>>, <<8144, 8147>>, <<8150, 8155>>,
     <<8160, 8172>>, <<8178, 8180>>, <<8182, 8188>>, <<8305, 8305>>,
     <<8319, 8319>>, <<8336, 8348>>, <<8450, 8450>>, <<8455, 8455>>,
     <<8458, 8467>>, <<8469, 8469>>, <<8473, 8477>>, <<8484, 8484>>,
     <<8486, 8486>>, <<8488, 8488>>, <<8490, 8493>>, <<8495, 8505>>,
     <<8508, 8511>>, <<8517, 8521>>, <<8526, 8526>>, <<8579, 8580>>,
     <<11264, 11310>>, <<11312, 11358>>, <<11360, 11492>>, <<11499, 11502>>,
     <<11506, 11507>>, <<11520, 11557>>, <<11559, 11559>>, <<11565, 11565>>,
     <<11568, 11623>>, <<11631, 11631>>, <<11648, 11670>>, <<11680, 11686>>,
     <<11688, 11694>>, <<11696, 11702>>, <<11704, 11710>>, <<11712, 11718>>,
     <<11720, 11726>>, <<11728, 11734>>, <<11736, 11742>>, <<11823, 11823>>,
     <<12293, 12294>>, <<12337, 12341>>, <<12347, 12348>>, <<12353, 12438>>,
     <<12445, 12447>>, <<12449, 12538>>, <<12540, 12543>>, <<12549, 12591>>,
     <<12593, 12686>>, <<12704, 12735>>, <<12784, 12799>>, <<13312, 19903>>,
     <<19968, 40956>>, <<40960, 42124>>, <<42192, 42237>>, <<42240, 42508>>,
     <<42512, 42527>>, <<42538, 42539>>, <<42560, 42606>>, <<42623, 42653>>,
     <<42656, 42725>>, <<42775, 42783>>, <<42786, 42888>>, <<42891, 42943>>,
     <<42946, 42954>>, <<42997, 43009>>, <<43011, 43013>>, <<43015, 43018>>,
     <<43020, 43042>>, <<43072, 43123>>, <<43138, 43187>>, <<43250, 43255>>,
     <<43259, 43259>>, <<43261, 43262>>, <<43274, 43301>>, <<43312, 43334>>,
     <<43360, 43388>>, <<43396, 43442>>, <<43471, 43471>>, <<43488, 43492>>,
     <<43494, 43503>>, <<43514, 43518>>, <<43520, 43560>>, <<43584, 43586>>,
     <<43588, 43595>>, <<43616, 43638>>, <<43642, 43642>>, <<43646, 43695>>,
     <<43697, 43697>>, <<43701, 43702>>, <<43705, 43709>>, <<43712, 43712>>,
     <<43714, 43714>>, <<43739, 43741>>, <<43744, 43754>>, <<43762, 43764>>,
     <<43777, 43782>>, <<43785, 43790>>, <<43793, 43798>>, <<43808, 43814>>,
     <<43816, 43822>>, <<43824, 43866>>, <<43868, 43881>>, <<43888, 44002>>,
     <<44032, 55203>>, <<55216, 55238>>, <<55243, 55291>>, <<63744, 64109>>,
     <<64112, 64217>>, <<64256, 64262>>, <<64275, 64279>>, <<64285, 64285>>,
     <<64287, 64296>>, <<64298, 64310>>, <<64312, 64316>>, <<64318, 64318>>,
     <<64320, 64321>>, <<64323, 64324>>, <<64326, 64433>>, <<64467, 64829>>,
     <<64848, 64911>>, <<64914, 64967>>, <<65008, 65019>>, <<65136, 65140>>,
     <<65142, 65276>>, <<65313, 65338>>, <<65345, 65370>>, <<65382, 65470>>,
     <<65474, 65479>>, <<65482, 65487>>, <<65490, 65495>>, <<65498, 65500>>,
     <<65536, 65547>>, <<65549, 65574>>, <<65576, 65594>>, <<65596, 65597>>,
     <<65599, 65613>>, <<65616, 65629>>, <<65664, 65786>>, <<66176, 66204>>,
     <<66208, 66256>>, <<66304, 66335>>, <<66349, 66368>>, <<66370, 66377>>,
     <<66384, 66421>>, <<66432, 66461>>, <<66464, 66499>>, <<66504, 66511>>,
     <<66560, 66717>>, <<66736, 66771>>, <<66776, 66811>>, <<66816, 66855>>,
     <<66864, 66915>>, <<67072, 67382>>, <<67392, 67413>>, <<67424, 67431>>,
     <<67584, 67589>>, <<67592, 67592>>, <<67594, 67637>>, <<67639, 67640>>,
     <<67644, 67644>>, <<67647, 67669>>, <<67680, 67702>>, <<67712, 67742>>,
     <<67808, 67826>>, <<67828, 67829>>, <<67840, 67861>>, <<67872, 67897>>,
     <<67968, 68023>>, <<68030, 68031>>, <<68096, 68096>>, <<68112, 68115>>,
     <<68117, 68119>>, <<68121, 68149>>, <<68192, 68220>>, <<68224, 68252>>,
     <<68288, 68295>>, <<68297, 68324>>, <<68352, 68405>>, <<68416, 68437>>,
     <<68448, 68466>>, <<68480, 68497>>, <<68608, 68680>>, <<68736, 68786>>,
     <<68800, 68850>>, <<68864, 68899>>, <<69248, 69289>>, <<69296, 69297>>,
     <<69376, 69404>>, <<69415, 69415>>, <<69424, 69445>>, <<69552, 69572>>,
     <<69600, 69622>>, <<69635, 69687>>, <<69763, 69807>>, <<69840, 69864>>,
     <<69891, 69926>>, <<69956, 69956>>, <<69959, 69959>>, <<69968, 70002>>,
     <<70006, 70006>>, <<70019, 70066>>, <<70081, 70084>>, <<70106, 70106>>,
     <<70108, 70108>>, <<70144, 70161>>, <<70163, 70187>>, <<70272, 70278>>,
     <<70280, 70280>>, <<70282, 70285>>, <<70287, 70301>>, <<70303, 70312>>,
     <<70320, 70366>>, <<70405, 70412>>, <<70415, 70416>>, <<70419, 70440>>,
     <<70442, 70448>>, <<70450, 70451>>, <<70453, 70457>>, <<70461, 70461>>,
     <<70480, 70480>>, <<70493, 70497>>, <<70656, 70708>>, <<70727, 70730>>,
     <<70751, 70753>>, <<70784, 70831>>, <<70852, 70853>>, <<70855, 70855>>,
     <<71040, 71086>>, <<71128, 71131>>, <<71168, 71215>>, <<71236, 71236>>,
     <<71296, 71338>>, <<71352, 71352>>, <<71424, 71450>>, <<71680, 71723>>,
     <<71840, 71903>>, <<71935, 71942>>, <<71945, 71945>>, <<71948, 71955>>,
     <<71957, 71958>>, <<71960, 71983>>, <<71999, 71999>>, <<72001, 72001>>,
     <<72096, 72103>>, <<72106, 72144>>, <<72161, 72161>>, <<72163, 72163>>,
     <<72192, 72192>>, <<72203, 72242>>, <<72250, 72250>>, <<72272, 72272>>,
     <<72284, 72329>>, <<72349, 72349>>, <<72384, 72440>>, <<72704, 72712>>,
     <<72714, 72750>>, <<72768, 72768>>, <<72818, 72847>>, <<72960, 72966>>,
     <<72968, 72969>>, <<72971, 73008>>, <<73030, 73030>>, <<73056, 73061>>,
     <<73063, 73064>>, <<73066, 73097>>, <<73112, 73112>>, <<73440, 73458>>,
     <<73648, 73648>>, <<73728, 74649>>, <<74880, 75075>>, <<77824, 78894>>,
     <<82944, 83526>>, <<92160, 92728>>, <<92736, 92766>>, <<92880, 92909>>,
     <<92928, 92975>>, <<92992, 92995>>, <<93027, 93047>>, <<93053, 93071>>,
     <<93760, 93823>>, <<93952, 94026>>, <<94032, 94032>>, <<94099, 94111>>,
     <<94176, 94177>>, <<94179, 94179>>, <<94208, 100343>>,
     <<100352, 101589>>, <<101632, 101640>>, <<110592, 110878>>,
     <<110928, 110930>>, <<110948, 110951>>, <<110960, 111355>>,
     <<113664, 113770>>, <<113776, 113788>>, <<113792, 113800>>,
     <<113808, 113817>>, <<119808, 119892>>, <<119894, 119964>>,
     <<119966, 119967>>, <<119970, 119970>>, <<119973, 119974>>,
     <<119977, 119980>>, <<119982, 119993>>, <<119995, 119995>>,
     <<119997, 120003>>, <<120005, 120069>>, <<120071, 120074>>,
     <<120077, 120084>>, <<120086, 120092>>, <<120094, 120121>>,
     <<120123, 120126>>, <<120128, 120132>>, <<120134, 120134>>,
     <<120138, 120144>>, <<120146, 120485>>, <<120488, 120512>>,
     <<120514, 120538>>, <<120540, 120570>>, <<120572, 120596>>,
     <<120598, 120628>>, <<120630, 120654>>, <<120656, 120686>>,
     <<120688, 120712>>, <<120714, 120744>>, <<120746, 120770>>,
     <<120772, 120779>>, <<123136, 123180>>, <<123191, 123197>>,
     <<123214, 123214>>, <<123584, 123627>>, <<124928, 125124>>,
     <<125184, 125251>>, <<125259, 125259>>, <<126464, 126467>>,
     <<126469, 126495>>, <<126497, 126498>>, <<126500, 126500>>,
     <<126503, 126503>>, <<126505, 126514>>, <<126516, 126519>>,
     <<126521, 126521>>, <<126523, 126523>>, <<126530, 126530>>,
     <<126535, 126535>>, <<126537, 126537>>, <<126539, 126539>>,
     <<126541, 126543>>, <<126545, 126546>>, <<126548, 126548>>,
     <<126551, 126551>>, <<126553, 126553>>, <<126555, 126555>>,
     <<126557, 126557>>, <<126559, 126559>>, <<126561, 126562>>,
     <<126564, 126564>>, <<126567, 126570>>, <<126572, 126578>>,
     <<126580, 126583>>, <<126585, 126588>>, <<126590, 126590>>,
     <<126592, 126601>>, <<126603, 126619>>, <<126625, 126627>>,
     <<126629, 126633>>, <<126635, 126651>>, <<131072, 173789>>,
     <<173824, 177972>>, <<177984, 178205>>, <<178208, 183969>>,
     <<183984, 191456>>, <<194560, 195101>>, <<196608, 201546>>}

\* unicode.Digit: the ranges of code points of category Nd
Digit ==
    {<<48, 57>>, <<1632, 1641>>, <<1776, 1785>>, <<1984, 1993>>,
     <<2406, 2415>>, <<2534, 2543>>, <<2662, 2671>>, <<2790, 2799>>,
     <<2918, 2927>>, <<3046, 3055>>, <<3174, 3183>>, <<3302, 3311>>,
     <<3430, 3439>>, <<3558, 3567>>, <<3664, 3673>>, <<3792, 3801>>,
     <<3872, 3881>>, <<4160, 4169>>, <<4240, 4249>>, <<6112, 6121>>,
     <<6160, 6169>>, <<6470, 6479>>, <<6608, 6617>>, <<6784, 6793>>,
     <<6800, 6809>>, <<6992, 7001>>, <<7088, 7097>>, <<7232, 7241>>,
     <<7248, 7257>>, <<42528, 42537>>, <<43216, 43225>>, <<43264, 43273>>,
     <<43472, 43481>>, <<43504, 43513>>, <<43600, 43609>>, <<44016, 44025>>,
     <<65296, 65305>>, <<66720, 66729>>, <<68912, 68921>>, <<69734, 69743>>,
     <<69872, 69881>>, <<69942, 69951>>, <<70096, 70105>>, <<70384, 70393>>,
     <<70736, 70745>>, <<70864, 70873>>, <<71248, 71257>>, <<71360, 71369>>,
     <<71472, 71481>>, <<71904, 71913>>, <<72016, 72025>>, <<72784, 72793>>,
     <<73040, 73049>>, <<73120, 73129>>, <<92768, 92777>>, <<93008, 93017>>,
     <<120782, 120831>>, <<123200, 123209>>, <<123632, 123641>>,
     <<125264, 125273>>, <<130032, 130041>>}

\* code point cp lies in one of the ranges of the table
InTable(cp, table) == \E r \in table : r[1] <= cp /\ cp <= r[2]

\* unicode.IsLetter.  (Up to U+00FF the library looks the rune up in its
\* properties table, which holds the same answers as the ranges.)
IsLetter(c) == InTable(CodePoint(c), Letter)

\* unicode.IsDigit
IsDigit(c) == InTable(CodePoint(c), Digit)

\* the bytes '0'..'9'
Digits == {"0","1","2","3","4","5","6","7","8","9"}

\* the value of a decimal digit
DigitVal(c) ==
    CASE c = "0" -> 0 [] c = "1" -> 1 [] c = "2" -> 2 [] c = "3" -> 3
      [] c = "4" -> 4 [] c = "5" -> 5 [] c = "6" -> 6 [] c = "7" -> 7
      [] c = "8" -> 8 [] c = "9" -> 9

\* s[from..] ; the empty string when from is past the end
Drop(s, from) == SubSeq(s, from, Len(s))

\* all strings over alphabet A of length at most n
StringsUpTo(A, n) == UNION {[1..k -> A] : k \in 0..n}

\* ------------------------------------------------------------------------
\* Regular expressions (package regexp, leftmost-first semantics)
\* ------------------------------------------------------------------------

\* regex atoms: a program is a sequence of atoms
Lit(c)     == [t |-> "set", neg |-> FALSE, cs |-> {c}]
NotIn(S)   == [t |-> "set", neg |-> TRUE, cs |-> S]
\* "." matches any character but a newline
AnyChar    == [t |-> "set", neg |-> TRUE, cs |-> {"\n"}]
\* greedy x* of a one-character atom x
Star(x)    == [t |-> "star", x |-> x]
\* "(" and ")" of capture group n
Open(n)    == [t |-> "open", n |-> n]
Close(n)   == [t |-> "close", n |-> n]
\* a|b, a preferred
Alt(a, b)  == [t |-> "alt", a |-> a, b |-> b]
Bol        == [t |-> "bol"]
Eol        == [t |-> "eol"]

InClass(x, c) == IF x.neg THEN c \notin x.cs ELSE c \in x.cs

NoMatch == [ok |-> FALSE]

\* capture n as <<first, last+1>>; <<0, 0>> while the group took no part
NoCaps(n) == [g \in 0..n |-> <<0, 0>>]

RECURSIVE Run(_, _, _, _)
\* The first match, in the order a backtracking matcher tries them, of
\* program prog against text from position pos on.
Run(prog, text, pos, caps) ==
    IF Len(prog) = 0
    THEN [ok |-> TRUE, end |-> pos, caps |-> caps]
    ELSE LET h == Head(prog)
             k == Tail(prog)
         IN  CASE h.t = "set" ->
                    IF pos <= Len(text) /\ InClass(h, text[pos])
                    THEN Run(k, text, pos + 1, caps)
                    ELSE NoMatch
               [] h.t = "star" ->
                    LET more == IF pos <= Len(text) /\ InClass(h.x, text[pos])
                                THEN Run(prog, text, pos + 1, caps)
                                ELSE NoMatch
                    IN  IF more.ok THEN more ELSE Run(k, text, pos, caps)
               [] h.t = "alt" ->
                    LET first == Run(h.a \o k, text, pos, caps)
                    IN  IF first.ok THEN first ELSE Run(h.b \o k, text, pos, caps)
               [] h.t = "open" ->
                    Run(k, text, pos, [caps EXCEPT ![h.n] = <<pos, pos>>])
               [] h.t = "close" ->
                    Run(k, text, pos, [caps EXCEPT ![h.n] = <<caps[h.n][1], pos>>])
               [] h.t = "bol" ->
                    IF pos = 1 THEN Run(k, text, pos, caps) ELSE NoMatch
               [] h.t = "eol" ->
                    IF pos = Len(text) + 1 THEN Run(k, text, pos, caps) ELSE NoMatch

RECURSIVE Find(_, _, _, _)
\* The leftmost match of re in text starting at or after position from.
\* re is [prog, groups]; capture 0 is the whole match.
Find(re, text, from, last) ==
    IF from > last
    THEN NoMatch
    ELSE LET m == Run(re.prog, text, from, NoCaps(re.groups))
         IN  IF m.ok
             THEN [ok |-> TRUE, start |-> from, end |-> m.end,
                   caps |-> [m.caps EXCEPT ![0] = <<from, m.end>>]]
             ELSE Find(re, text, from + 1, last)

\* regexp.MatchString(regex, text)
MatchString(re, text) == Find(re, text, 1, Len(text) + 1).ok

\* the text of capture n of a match
Capture(text, caps, n) ==
    IF n \in DOMAIN caps /\ caps[n][1] > 0
    THEN SubSeq(text, caps[n][1], caps[n][2] - 1)
    ELSE << >>

\* extract's test of a rune of a reference name:
\* unicode.IsLetter(rune) || unicode.IsDigit(rune) || rune == '_'
IsWord(c) == IsLetter(c) \/ IsDigit(c) \/ c = "_"

RECURSIVE WordLen(_)
\* length of the longest prefix of s made of letters, digits and underscore
WordLen(s) == IF Len(s) > 0 /\ IsWord(Head(s)) THEN 1 + WordLen(Tail(s)) ELSE 0

RECURSIVE NameNum(_, _)
\* extract's number loop from value acc on: the number the name spells, -1
\* when a byte is not in '0'..'9' or the value has reached 1e8 before a
\* further byte
NameNum(name, acc) ==
    IF Len(name) = 0 THEN acc
    ELSE IF Head(name) \notin Digits \/ acc >= 100000000 THEN -1
    ELSE NameNum(Tail(name), acc * 10 + DigitVal(Head(name)))

\* regexp's extract: the group reference at the start of str, the text after
\* a "$".  [ok, num, rest]
Extract(str) ==
    IF Len(str) = 0 THEN [ok |-> FALSE]
    ELSE LET brace == Head(str) = "{"
             s     == IF brace THEN Tail(str) ELSE str
             i     == WordLen(s)
             name  == SubSeq(s, 1, i)
             n     == NameNum(name, 0)
             num   == IF Head(name) = "0" /\ Len(name) > 1 THEN -1 ELSE n
         IN  IF i = 0 THEN [ok |-> FALSE]
             ELSE IF brace
                  THEN IF i >= Len(s) \/ s[i + 1] # "}"
                       THEN [ok |-> FALSE]
                       ELSE [ok |-> TRUE, num |-> num, rest |-> Drop(s, i + 2)]
                  ELSE [ok |-> TRUE, num |-> num, rest |-> Drop(s, i + 1)]

RECURSIVE Expand(_, _, _)
\* regexp's expand: template with $n, ${n} and $$ substituted; a reference
\* to a group that does not exist (or to a name) expands to nothing.
Expand(template, text, caps) ==
    IF Len(template) = 0 THEN << >>
    ELSE IF Head(template) # "$"
    THEN <<Head(template)>> \o Expand(Tail(template), text, caps)
    ELSE LET after == Tail(template)
         IN  IF Len(after) > 0 /\ Head(after) = "$"
             THEN <<"$">> \o Expand(Tail(after), text, caps)
             ELSE LET x == Extract(after)
                  IN  IF ~x.ok
                      THEN <<"$">> \o Expand(after, text, caps)
                      ELSE (IF x.num >= 0 THEN Capture(text, caps, x.num) ELSE << >>)
                           \o Expand(x.rest, text, caps)

RECURSIVE ReplaceFrom(_, _, _, _)
\* the part of ReplaceAllString's result produced from position from on
ReplaceFrom(re, text, template, from) ==
    LET m == Find(re, text, from, Len(text) + 1)
    IN  IF ~m.ok THEN Drop(text, from)
        ELSE SubSeq(text, from, m.start - 1)
             \o Expand(template, text, m.caps)
             \o (IF m.end > m.start
                 THEN ReplaceFrom(re, text, template, m.end)
                 ELSE IF m.end > Len(text) THEN << >>
                 ELSE <<text[m.end]>> \o ReplaceFrom(re, text, template, m.end + 1))

\* (*Regexp).ReplaceAllString(text, template)
ReplaceAllString(re, text, template) == ReplaceFrom(re, text, template, 1)

\* ------------------------------------------------------------------------
\* Credential resolution (NewConnection)
\* ------------------------------------------------------------------------

\* "^.*://([^:@/]*)(:[^/]*@|@).*$"
reUsername ==
    [groups |-> 2,
     prog |-> <<Bol, Star(AnyChar), Lit(":"), Lit("/"), Lit("/"),
                Open(1), Star(NotIn({":", "@", "/"})), Close(1),
                Open(2), Alt(<<Lit(":"), Star(NotIn({"/"})), Lit("@")>>,
                             <<Lit("@")>>), Close(2),
                Star(AnyChar), Eol>>]

\* "^.*://[^:@/]*:([^@]*)@.*$"
rePassword ==
    [groups |-> 1,
     prog |-> <<Bol, Star(AnyChar), Lit(":"), Lit("/"), Lit("/"),
                Star(NotIn({":", "@", "/"})), Lit(":"),
                Open(1), Star(NotIn({"@"})), Close(1),
                Lit("@"), Star(AnyChar), Eol>>]

\* "^(.*://)([^@/]*@|)([^@]*)(/.*|$)"
reURL ==
    [groups |-> 4,
     prog |-> <<Bol, Open(1), Star(AnyChar), Lit(":"), Lit("/"), Lit("/"), Close(1),
                Open(2), Alt(<<Star(NotIn({"@", "/"})), Lit("@")>>, << >>), Close(2),
                Open(3), Star(NotIn({"@"})), Close(3),
                Open(4), Alt(<<Lit("/"), Star(AnyChar)>>, <<Eol>>), Close(4)>>]

\* "amqps://pulse.mozilla.org:5671"
DefaultURL ==
    <<"a","m","q","p","s",":","/","/","p","u","l","s","e",".","m","o","z","i",
      "l","l","a",".","o","r","g",":","5","6","7","1">>

\* "guest"
Guest == <<"g","u","e","s","t">>

\* match as it would be if it took capture 2
matchSecondGroup(regex, text) ==
    IF MatchString(regex, text)
    THEN ReplaceAllString(regex, text, <<"$", "2">>)
    ELSE << >>

\* match(regex, text): capture 1 of the regex in text, "" if it does not match
match(regex, text) ==
    IF MatchString(regex, text)
    THEN ReplaceAllString(regex, text, <<"$", "1">>)
    ELSE << >>

\* os.Getenv(name) in environment e
Getenv(e, name) == e[name]

\* the nil connection handle
Nil == 0

\* NewConnection as it would be if it looked for a password in the URL only
\* when it looks for the user there
NewConnectionCoupled(pulseUser, pulsePassword, amqpUrl, e) ==
    LET url0  == IF amqpUrl = << >> THEN DefaultURL ELSE amqpUrl
        user1 == IF pulseUser = << >> THEN match(reUsername, url0) ELSE pulseUser
        pass1 == IF pulsePassword = << >> /\ pulseUser = << >>
                 THEN match(rePassword, url0) ELSE pulsePassword
        user2 == IF user1 = << >> THEN Getenv(e, "PULSE_USERNAME") ELSE user1
        pass2 == IF pass1 = << >> THEN Getenv(e, "PULSE_PASSWORD") ELSE pass1
        user3 == IF user2 = << >> THEN Guest ELSE user2
        pass3 == IF pass2 = << >> THEN Guest ELSE pass2
        url1  == ReplaceAllString(reURL, url0,
                    <<"$", "{", "1", "}">> \o user3 \o <<":">> \o pass3
                    \o <<"@", "$", "{", "3", "}", "$", "{", "4", "}">>)
    IN  [User |-> user3, Password |-> pass3, URL |-> url1,
         AMQPConn |-> Nil, connected |-> FALSE]

\* NewConnection(pulseUser, pulsePassword, amqpUrl) in environment e
NewConnection(pulseUser, pulsePassword, amqpUrl, e) ==
    LET url0  == IF amqpUrl = << >> THEN DefaultURL ELSE amqpUrl
        user1 == IF pulseUser = << >> THEN match(reUsername, url0) ELSE pulseUser
        pass1 == IF pulsePassword = << >> THEN match(rePassword, url0) ELSE pulsePassword
        user2 == IF user1 = << >> THEN Getenv(e, "PULSE_USERNAME") ELSE user1
        pass2 == IF pass1 = << >> THEN Getenv(e, "PULSE_PASSWORD") ELSE pass1
        user3 == IF user2 = << >> THEN Guest ELSE user2
        pass3 == IF pass2 = << >> THEN Guest ELSE pass2
        url1  == ReplaceAllString(reURL, url0,
                    <<"$", "{", "1", "}">> \o user3 \o <<":">> \o pass3
                    \o <<"@", "$", "{", "3", "}", "$", "{", "4", "}">>)
    IN  [User |-> user3, Password |-> pass3, URL |-> url1,
         AMQPConn |-> Nil, connected |-> FALSE]

\* ------------------------------------------------------------------------
\* Bounds and input sets
\* ------------------------------------------------------------------------

\* longest text after the scheme in the URLs given to NewConnection
MaxTail == 5
\* Consume calls made in one run
MaxCalls == 2
\* deliveries the broker sends in one run
MaxDeliveries == 2

UrlAlphabet == {"a", ":", "@", "/"}

\* "s://"
Scheme == <<"s", ":", "/", "/">>

Tails == StringsUpTo(UrlAlphabet, MaxTail)

\* "s://h", "s://u:p@h" and "s://u:p@h/v"
SampleUrls ==
    { Scheme \o <<"h">>,
      Scheme \o <<"u", ":", "p", "@", "h">>,
      Scheme \o <<"u", ":", "p", "@", "h", "/", "v">> }

\* the amqpUrl arguments: "", texts without a scheme, scheme://text, and
\* the sample URLs
Urls == Tails \cup {Scheme \o t : t \in Tails} \cup SampleUrls

\* the pulseUser and pulsePassword arguments: "", "b", "$$"
ArgVals == {<< >>, <<"b">>, <<"$", "$">>}

\* the values of PULSE_USERNAME and PULSE_PASSWORD: unset, "e"
EnvVals == {<< >>, <<"e">>}

ArgSets == [user : ArgVals, password : ArgVals, url : Urls]

EnvSets == [PULSE_USERNAME : EnvVals, PULSE_PASSWORD : EnvVals]

\* Bind(routingKey, exchangeName)
Bind(routingKey, exchangeName) == [rk |-> routingKey, en |-> exchangeName]

RoutingKey(b) == b.rk

\* ExchangeName() as it would be if it returned the routing key
ExchangeNameAsKey(b) == b.rk

ExchangeName(b) == b.en

\* the (queueName, autoAck, bindings) arguments of the Consume calls:
\* an unnamed queue without bindings, a named queue with one binding, an
\* unnamed queue bound to two exchanges, a named queue bound twice to one
ConsumeInputs ==
    { [queueName |-> << >>, autoAck |-> FALSE, bindings |-> << >>],
      [queueName |-> <<"q">>, autoAck |-> TRUE,
       bindings |-> <<Bind(<<"k", "1">>, <<"x", "1">>)>>],
      [queueName |-> << >>, autoAck |-> TRUE,
       bindings |-> <<Bind(<<"k", "1">>, <<"x", "1">>), Bind(<<"k", "2">>, <<"x", "2">>)>>],
      [queueName |-> <<"q">>, autoAck |-> FALSE,
       bindings |-> <<Bind(<<"k", "1">>, <<"x", "1">>), Bind(<<"k", "2">>, <<"x", "1">>)>>] }

\* the Consume arguments of the runs that go on to use the session handles:
\* an unnamed queue with one binding
SessionInputs ==
    { [queueName |-> << >>, autoAck |-> FALSE,
       bindings |-> <<Bind(<<"k", "1">>, <<"x", "1">>)>>] }

\* the url arguments of SetURL: "t://u:p@hh", one byte longer than the URL
\* NewConnection builds
SetUrls == {<<"t", ":", "/", "/", "u", ":", "p", "@", "h", "h">>}

\* the NewConnection call of the runs that go on to Consume:
\* NewConnection("b", "", "s://a:a@a") with no environment variable set
ConsumeArgSets ==
    {[user |-> <<"b">>, password |-> << >>, url |-> Scheme \o <<"a", ":", "a", "@", "a">>]}

ConsumeEnvSets == {[PULSE_USERNAME |-> << >>, PULSE_PASSWORD |-> << >>]}

\* the goroutines that call Consume, one call each
Callers == 1..MaxCalls

\* ------------------------------------------------------------------------
\* State
\* ------------------------------------------------------------------------

VARIABLES
    env,        \* the process environment
    args,       \* the arguments of the NewConnection call
    made,       \* NewConnection has returned
    conn,       \* the connection struct
    exited,     \* the process has ended: os.Exit in log.Fatalf, or a panic
    dials,      \* amqp.Dial calls that have returned
    ops,        \* per caller: the broker operations its Consume call issued, in order
    call,       \* per caller: position in Consume, its arguments and locals
    overlap,    \* two Consume calls have been in progress at the same time
    uuids,      \* uuid.New() calls so far
    events,     \* per caller: eventsChan, the deliveries not yet received
    closed,     \* per caller: the broker has closed eventsChan
    loop,       \* per caller: position of the delivery goroutine
    running,    \* per caller: callback invocations in progress
    arrived,    \* per caller: the deliveries sent on eventsChan, in order
    invoked,    \* per caller: the deliveries the callback was invoked with
    touchedAt   \* per caller: the deliveries that had arrived when a method of
                \* its session handle was first called, -1 before that

vars == <<env, args, made, conn, exited, dials, ops, call, overlap, uuids,
          events, closed, loop, running, arrived, invoked, touchedAt>>

connVars == <<env, args, made, conn>>
loopVars == <<events, closed, loop, running, arrived, invoked>>
sessionVars == <<touchedAt>>

\* the zero value of struct connection
ZeroConn ==
    [User |-> << >>, Password |-> << >>, URL |-> << >>,
     AMQPConn |-> Nil, connected |-> FALSE]

\* a caller that has not called Consume
IdleCall ==
    [pc |-> "idle", queueName |-> << >>, bindings |-> << >>, autoAck |-> FALSE,
     sawConnected |-> FALSE, raced |-> FALSE, urls |-> {}, url |-> << >>,
     h |-> Nil, ch |-> Nil, i |-> 0, name |-> << >>, q |-> << >>]

\* a broker operation: what was called, by which Consume call, on which
\* connection or channel, with which arguments, and whether it succeeded
BrokerOp(op, c, on, ok) ==
    [op |-> op, call |-> c, on |-> on, ok |-> ok,
     name |-> << >>, key |-> << >>, exchange |-> << >>, kind |-> "",
     durable |-> FALSE, autoDelete |-> FALSE, exclusive |-> FALSE,
     internal |-> FALSE, noLocal |-> FALSE, noWait |-> FALSE, autoAck |-> FALSE]

\* the operations of kind op among those of Consume call c
OpsOf(c, op) == {n \in 1..Len(ops[c]) : ops[c][n].op = op}

\* the handle amqp.Dial returns: connections are numbered in the order in
\* which their dials return
NewHandle == dials + 1

\* the connection handles the successful dials have returned
Handles ==
    UNION {{ops[c][n].on : n \in {k \in OpsOf(c, "Dial") : ops[c][k].ok}} : c \in Callers}

\* the first result of amqp.Dial: the connection when the dial succeeds;
\* when it fails, nil if no connection was set up, or else the connection
\* on which the handshake failed, which is closed
DialResults(ok) == IF ok THEN {NewHandle} ELSE {Nil, NewHandle}

\* the channel Channel() returns to Consume call c: every call gets its own
NewChannel(c) == c

\* a Consume call is in progress
Active(c) == call[c].pc \notin {"idle", "returned"}

\* "queue/"
QueuePrefix == <<"q", "u", "e", "u", "e", "/">>

\* uuid.New() as it would be if it returned the same text every time
UuidConstant(n) == <<"#", 0>>

\* the result of the n-th uuid.New() of the process
Uuid(n) == <<"#", n>>

\* queue flags that would make every queue shared and lasting
QueueFlagsShared(queueName) ==
    [durable |-> FALSE, autoDelete |-> FALSE, exclusive |-> FALSE, noWait |-> FALSE]

\* the durable, delete-when-unused, exclusive and no-wait arguments of
\* QueueDeclare in the two branches of queueName == ""
QueueFlags(queueName) ==
    [durable |-> FALSE, autoDelete |-> queueName = << >>,
     exclusive |-> queueName = << >>, noWait |-> FALSE]

\* the name Consume declares its queue under
QueueNameOf(user, queueName, uuid) ==
    IF queueName = << >>
    THEN QueuePrefix \o user \o <<"/">> \o uuid
    ELSE QueuePrefix \o user \o <<"/">> \o queueName

\* ------------------------------------------------------------------------
\* Actions
\* ------------------------------------------------------------------------

\* c := NewConnection(args.user, args.password, args.url)
Create ==
    /\ ~made
    /\ made' = TRUE
    /\ conn' = NewConnection(args.user, args.password, args.url, env)
    /\ UNCHANGED <<env, args, exited, dials, ops, call, overlap, uuids>>
    /\ UNCHANGED loopVars
    /\ UNCHANGED sessionVars

\* the bytes a read of a string yields that takes the data pointer of a and
\* the length of b: a cut to the length of b or, when b is the longer, a
\* followed by the bytes that lie behind it in memory, written "?"
TornRead(a, b) ==
    IF Len(b) <= Len(a)
    THEN SubSeq(a, 1, Len(b))
    ELSE a \o [n \in 1..(Len(b) - Len(a)) |-> "?"]

\* the calls after a write of url to c.URL: a call that is in Consume and has
\* yet to read c.URL does so in another goroutine, and nothing orders its
\* read after this write or after the one before
Unordered(url) ==
    [c \in Callers |->
        IF call[c].pc = "dial"
        THEN [call[c] EXCEPT !.urls = @ \cup {url}]
        ELSE call[c]]

\* what the read of c.URL in connect can yield in call c: the value stored,
\* or, when SetURL has written the field since the call was entered, any of
\* the values it has held since then or the pointer of one with the length
\* of another
URLReads(c) == {TornRead(a, b) : a \in call[c].urls, b \in call[c].urls}

\* SetURL as it would be if it dialed the new URL at once
SetURLDialing(url) ==
    /\ made /\ ~exited
    /\ dials' = dials + 1
    /\ conn' = [conn EXCEPT !.URL = url, !.AMQPConn = dials + 1, !.connected = TRUE]
    /\ call' = Unordered(url)
    /\ UNCHANGED <<env, args, made, exited, ops, overlap, uuids,
                   events, closed, loop, running, arrived, invoked>>
    /\ UNCHANGED sessionVars

\* SetURL as it would be if it resolved the credentials again from the new URL
SetURLResolving(url) ==
    /\ made /\ ~exited
    /\ conn' = [NewConnection(<< >>, << >>, url, env)
                  EXCEPT !.AMQPConn = conn.AMQPConn, !.connected = conn.connected]
    /\ call' = Unordered(conn'.URL)
    /\ UNCHANGED <<env, args, made, exited, dials, ops, overlap, uuids>>
    /\ UNCHANGED loopVars
    /\ UNCHANGED sessionVars

\* c.SetURL(url)
SetURL(url) ==
    /\ made /\ ~exited
    /\ conn' = [conn EXCEPT !.URL = url]
    /\ call' = Unordered(url)
    /\ UNCHANGED <<env, args, made, exited, dials, ops, overlap, uuids>>
    /\ UNCHANGED loopVars
    /\ UNCHANGED sessionVars

\* failOnError as it would be if it logged the error and returned
failOnErrorReturns(ok, next) == next

\* the position of a call after failOnError(err, msg): with a nil err the
\* call goes on at next, with a non-nil err it is in log.Fatalf and never
\* comes back
failOnError(ok, next) == IF ok THEN next ELSE "fatal"

\* log.Fatalf in call c has written its message and calls os.Exit(1): the
\* process ends. Until then the other goroutines run.
Fatal(c) ==
    /\ ~exited
    /\ call[c].pc = "fatal"
    /\ exited' = TRUE
    /\ UNCHANGED <<dials, ops, call, overlap, uuids>>
    /\ UNCHANGED connVars
    /\ UNCHANGED loopVars
    /\ UNCHANGED sessionVars

\* the panic of call c has been reported and the runtime ends the process.
\* Until then the other goroutines run.
Panic(c) ==
    /\ ~exited
    /\ call[c].pc = "panic"
    /\ exited' = TRUE
    /\ UNCHANGED <<dials, ops, call, overlap, uuids>>
    /\ UNCHANGED connVars
    /\ UNCHANGED loopVars
    /\ UNCHANGED sessionVars

\* a loop over the bindings as it would be if it stopped after the first
AfterBindingOnce(c, i, again, done) == done

\* the position after the exchange loop or the bind loop has done binding i
AfterBinding(c, i, again, done) ==
    IF i < Len(call[c].bindings) THEN again ELSE done

\* the loop variable i of "for i := range bindings" (counted from 1) after
\* the step that follows binding i and leads to the position next, 0
\* standing for no loop in progress: a call that stays in failOnError never
\* advances it
NextBinding(c, i, next) ==
    IF next = "fatal" THEN i ELSE IF i < Len(call[c].bindings) THEN i + 1 ELSE 0

\* the read of c.connected by call c finds true while the call that dialed
\* is still in progress: nothing orders the reads of call c after the
\* writes of that call
RacyRead(c) ==
    /\ conn.connected
    /\ \E b \in Callers \ {c} : Active(b) /\ ~call[b].sawConnected

\* Consume is entered and tests c.connected
ConsumeBegin(c, queueName, bindings, autoAck) ==
    /\ made /\ ~exited
    /\ call[c].pc = "idle"
    /\ \A b \in Callers : b < c => call[b].pc # "idle"
    /\ call' = [call EXCEPT ![c] =
                  [IdleCall EXCEPT !.pc = IF conn.connected THEN "channel" ELSE "dial",
                                   !.sawConnected = conn.connected,
                                   !.raced = RacyRead(c),
                                   !.urls = IF conn.connected THEN {} ELSE {conn.URL},
                                   !.queueName = queueName,
                                   !.bindings = bindings,
                                   !.autoAck = autoAck]]
    /\ overlap' = (overlap \/ \E b \in Callers : Active(b))
    /\ UNCHANGED <<exited, dials, ops, uuids>>
    /\ UNCHANGED connVars
    /\ UNCHANGED loopVars
    /\ UNCHANGED sessionVars

\* connect as it would be if it tested connected again and dialed only when
\* no other call has
DialChecked(c) ==
    /\ ~exited
    /\ call[c].pc = "dial"
    /\ IF conn.connected
       THEN call' = [call EXCEPT ![c].pc = "channel", ![c].urls = {}]
       ELSE \E url \in URLReads(c) :
                call' = [call EXCEPT ![c].pc = "dialing",
                                     ![c].url = url,
                                     ![c].urls = {}]
    /\ UNCHANGED <<exited, dials, ops, overlap, uuids>>
    /\ UNCHANGED connVars
    /\ UNCHANGED loopVars
    /\ UNCHANGED sessionVars

\* c.connect() up to the call of amqp.Dial: c.URL is read and the dial is
\* issued; the call waits for the broker while other goroutines run
Dial(c) ==
    /\ ~exited
    /\ call[c].pc = "dial"
    /\ \E url \in URLReads(c) :
          call' = [call EXCEPT ![c].pc = "dialing",
                               ![c].url = url,
                               ![c].urls = {}]
    /\ UNCHANGED <<exited, dials, ops, overlap, uuids>>
    /\ UNCHANGED connVars
    /\ UNCHANGED loopVars
    /\ UNCHANGED sessionVars

\* connect as it would be if it never set connected
ConnectForgetful(c, ok) ==
    /\ ~exited
    /\ call[c].pc = "dialing"
    /\ dials' = dials + 1
    /\ ops' = [ops EXCEPT ![c] =
                Append(@, [BrokerOp("Dial", c, dials + 1, ok) EXCEPT !.name = call[c].url])]
    /\ \E h \in DialResults(ok) : conn' = [conn EXCEPT !.AMQPConn = h]
    /\ call' = [call EXCEPT ![c].pc = IF ok THEN "channel" ELSE "fatal",
                            ![c].url = << >>]
    /\ UNCHANGED <<env, args, made, exited, overlap, uuids,
                   events, closed, loop, running, arrived, invoked>>
    /\ UNCHANGED sessionVars

\* c.connect() from the return of amqp.Dial on: its two results are assigned
\* to c.AMQPConn and err whatever err is, failOnError, then connected = true
Connect(c, ok) ==
    /\ ~exited
    /\ call[c].pc = "dialing"
    /\ dials' = dials + 1
    /\ ops' = [ops EXCEPT ![c] =
                Append(@, [BrokerOp("Dial", c, NewHandle, ok) EXCEPT !.name = call[c].url])]
    /\ LET next == failOnError(ok, "channel")
       IN  /\ \E h \in DialResults(ok) :
                 conn' = [conn EXCEPT !.AMQPConn = h,
                                      !.connected = @ \/ next = "channel"]
           /\ call' = [call EXCEPT ![c].pc = next, ![c].url = << >>]
    /\ UNCHANGED <<env, args, made, exited, overlap, uuids>>
    /\ UNCHANGED loopVars
    /\ UNCHANGED sessionVars

\* what the read of c.AMQPConn can yield in call c: the handle stored, and
\* nil in a call whose reads race with the dialing call's writes and that
\* has read connected = true
HandleReads(c) == {conn.AMQPConn} \cup (IF call[c].raced THEN {Nil} ELSE {})

\* c.AMQPConn.Channel() is called: the handle is read and the request sent;
\* the call waits for the broker while other goroutines run. On a nil handle
\* the call panics with a nil pointer dereference.
Channel(c) ==
    /\ ~exited
    /\ call[c].pc = "channel"
    /\ \E h \in HandleReads(c) :
          call' = [call EXCEPT ![c].h = h,
                               ![c].pc = IF h = Nil THEN "panic" ELSE "channeling"]
    /\ UNCHANGED <<exited, dials, ops, overlap, uuids>>
    /\ UNCHANGED connVars
    /\ UNCHANGED loopVars
    /\ UNCHANGED sessionVars

\* ch, err := c.AMQPConn.Channel() returns, then failOnError; on a connection
\* whose handshake failed Channel() returns an error
OpenChannel(c, ok) ==
    /\ ~exited
    /\ call[c].pc = "channeling"
    /\ ok => call[c].h \in Handles
    /\ ops' = [ops EXCEPT ![c] = Append(@, BrokerOp("Channel", c, call[c].h, ok))]
    /\ call' = [call EXCEPT ![c].ch = IF ok THEN NewChannel(c) ELSE Nil,
                            ![c].h = Nil,
                            ![c].i = NextBinding(c, 0, failOnError(ok, AfterBinding(c, 0, "exchange", "queue"))),
                            ![c].pc = failOnError(ok, AfterBinding(c, 0, "exchange", "queue"))]
    /\ UNCHANGED <<exited, dials, overlap, uuids>>
    /\ UNCHANGED connVars
    /\ UNCHANGED loopVars
    /\ UNCHANGED sessionVars

\* ch.ExchangeDeclarePassive(bindings[i].ExchangeName(), "topic", ...) is
\* called: the request is sent and the call waits for the broker while other
\* goroutines run
ExchangeDeclarePassive(c) ==
    /\ ~exited
    /\ call[c].pc = "exchange"
    /\ call' = [call EXCEPT ![c].pc = "declaringExchange"]
    /\ UNCHANGED <<exited, dials, ops, overlap, uuids>>
    /\ UNCHANGED connVars
    /\ UNCHANGED loopVars
    /\ UNCHANGED sessionVars

\* err = ch.ExchangeDeclarePassive(...) returns, then failOnError and, after
\* it, the next round of the loop
DeclareExchange(c, ok) ==
    /\ ~exited
    /\ call[c].pc = "declaringExchange"
    /\ LET i == call[c].i
       IN  /\ ops' = [ops EXCEPT ![c] = Append(@,
                       [BrokerOp("ExchangeDeclarePassive", c, call[c].ch, ok)
                          EXCEPT !.exchange = ExchangeName(call[c].bindings[i]),
                                 !.kind = "topic"])]
           /\ call' = [call EXCEPT ![c].i = NextBinding(c, i, failOnError(ok, AfterBinding(c, i, "exchange", "queue"))),
                                   ![c].pc = failOnError(ok, AfterBinding(c, i, "exchange", "queue"))]
    /\ UNCHANGED <<exited, dials, overlap, uuids>>
    /\ UNCHANGED connVars
    /\ UNCHANGED loopVars
    /\ UNCHANGED sessionVars

\* ch.QueueDeclare(...) is called, in either branch of queueName == "": the
\* name is built, with a new uuid when queueName is empty, and the request
\* sent; the call waits for the broker while other goroutines run
QueueDeclare(c) ==
    /\ ~exited
    /\ call[c].pc = "queue"
    /\ uuids' = IF call[c].queueName = << >> THEN uuids + 1 ELSE uuids
    /\ call' = [call EXCEPT ![c].name = QueueNameOf(conn.User, call[c].queueName, Uuid(uuids + 1)),
                            ![c].pc = "declaring"]
    /\ UNCHANGED <<exited, dials, ops, overlap>>
    /\ UNCHANGED connVars
    /\ UNCHANGED loopVars
    /\ UNCHANGED sessionVars

\* q, err = ch.QueueDeclare(...) returns, then failOnError
DeclareQueue(c, ok) ==
    /\ ~exited
    /\ call[c].pc = "declaring"
    /\ ops' = [ops EXCEPT ![c] = Append(@,
                [BrokerOp("QueueDeclare", c, call[c].ch, ok)
                   EXCEPT !.name = call[c].name,
                          !.durable = QueueFlags(call[c].queueName).durable,
                          !.autoDelete = QueueFlags(call[c].queueName).autoDelete,
                          !.exclusive = QueueFlags(call[c].queueName).exclusive,
                          !.noWait = QueueFlags(call[c].queueName).noWait])]
    /\ call' = [call EXCEPT ![c].q = IF ok THEN call[c].name ELSE << >>,
                            ![c].name = << >>,
                            ![c].i = NextBinding(c, 0, failOnError(ok, AfterBinding(c, 0, "bind", "consume"))),
                            ![c].pc = failOnError(ok, AfterBinding(c, 0, "bind", "consume"))]
    /\ UNCHANGED <<exited, dials, overlap, uuids>>
    /\ UNCHANGED connVars
    /\ UNCHANGED loopVars
    /\ UNCHANGED sessionVars

\* log.Printf("Binding %s to %s with routing key %s", ...): a line of output,
\* written under the lock of the logger
LogBinding(c) ==
    /\ ~exited
    /\ call[c].pc = "bind"
    /\ call' = [call EXCEPT ![c].pc = "queueBind"]
    /\ UNCHANGED <<exited, dials, ops, overlap, uuids>>
    /\ UNCHANGED connVars
    /\ UNCHANGED loopVars
    /\ UNCHANGED sessionVars

\* ch.QueueBind(q.Name, bindings[i].RoutingKey(), bindings[i].ExchangeName(), false, nil)
\* is called: the request is sent and the call waits for the broker while
\* other goroutines run
QueueBind(c) ==
    /\ ~exited
    /\ call[c].pc = "queueBind"
    /\ call' = [call EXCEPT ![c].pc = "binding"]
    /\ UNCHANGED <<exited, dials, ops, overlap, uuids>>
    /\ UNCHANGED connVars
    /\ UNCHANGED loopVars
    /\ UNCHANGED sessionVars

\* err = ch.QueueBind(...) returns, then failOnError and, after it, the next
\* round of the loop
BindQueue(c, ok) ==
    /\ ~exited
    /\ call[c].pc = "binding"
    /\ LET i == call[c].i
       IN  /\ ops' = [ops EXCEPT ![c] = Append(@,
                       [BrokerOp("QueueBind", c, call[c].ch, ok)
                          EXCEPT !.name = call[c].q,
                                 !.key = RoutingKey(call[c].bindings[i]),
                                 !.exchange = ExchangeName(call[c].bindings[i])])]
           /\ call' = [call EXCEPT ![c].i = NextBinding(c, i, failOnError(ok, AfterBinding(c, i, "bind", "consume"))),
                                   ![c].pc = failOnError(ok, AfterBinding(c, i, "bind", "consume"))]
    /\ UNCHANGED <<exited, dials, overlap, uuids>>
    /\ UNCHANGED connVars
    /\ UNCHANGED loopVars
    /\ UNCHANGED sessionVars

\* ch.Consume(q.Name, "", autoAck, false, false, false, nil) is called: the
\* channel of the deliveries is made, the request is sent and the call waits
\* for the broker while other goroutines run
ChannelConsume(c) ==
    /\ ~exited
    /\ call[c].pc = "consume"
    /\ call' = [call EXCEPT ![c].pc = "consuming"]
    /\ UNCHANGED <<exited, dials, ops, overlap, uuids>>
    /\ UNCHANGED connVars
    /\ UNCHANGED loopVars
    /\ UNCHANGED sessionVars

\* eventsChan, err := ch.Consume(...) returns, then failOnError. The broker
\* delivers only after its answer that the consumer is registered, and the
\* library hands that answer to the waiting call before it reads on: once a
\* delivery has arrived the call succeeds.
RegisterConsumer(c, ok) ==
    /\ ~exited
    /\ call[c].pc = "consuming"
    /\ arrived[c] # << >> => ok
    /\ ops' = [ops EXCEPT ![c] = Append(@,
                [BrokerOp("Consume", c, call[c].ch, ok)
                   EXCEPT !.name = call[c].q, !.autoAck = call[c].autoAck])]
    /\ call' = [call EXCEPT ![c].pc = failOnError(ok, "go")]
    /\ UNCHANGED <<exited, dials, overlap, uuids>>
    /\ UNCHANGED connVars
    /\ UNCHANGED loopVars
    /\ UNCHANGED sessionVars

\* go func() {...}(): the delivery goroutine starts
StartLoop(c) ==
    /\ ~exited
    /\ call[c].pc = "go"
    /\ call' = [call EXCEPT ![c].pc = "return"]
    /\ loop' = [loop EXCEPT ![c] = "recv"]
    /\ UNCHANGED <<exited, dials, ops, overlap, uuids, events, closed, running, arrived, invoked>>
    /\ UNCHANGED connVars
    /\ UNCHANGED sessionVars

\* a return that would wait for the delivery loop to end
ReturnAfterLoop(c) ==
    /\ ~exited
    /\ call[c].pc = "return"
    /\ loop[c] = "exited"
    /\ call' = [call EXCEPT ![c].pc = "returned"]
    /\ UNCHANGED <<env, args, made, conn, exited, dials, ops, overlap, uuids,
                   events, closed, loop, running, arrived, invoked, touchedAt>>

\* return pulseQueue{}
Return(c) ==
    /\ ~exited
    /\ call[c].pc = "return"
    /\ call' = [call EXCEPT ![c].pc = "returned"]
    /\ UNCHANGED <<exited, dials, ops, overlap, uuids>>
    /\ UNCHANGED connVars
    /\ UNCHANGED loopVars
    /\ UNCHANGED sessionVars

\* ch.Consume has returned eventsChan to call c
Registered(c) == call[c].pc \in {"go", "return", "returned"}

\* the request to register the consumer of call c has been sent and has not
\* failed: the broker can have registered it
Subscribed(c) == call[c].pc = "consuming" \/ Registered(c)

RECURSIVE SumLen(_, _)
\* the total length of the sequences f[c], c in S
SumLen(f, S) ==
    IF S = {} THEN 0
    ELSE LET c == CHOOSE x \in S : TRUE IN Len(f[c]) + SumLen(f, S \ {c})

\* the broker sends the next delivery to the consumer of call c: it waits in
\* eventsChan, or in the library before it, until the loop receives it
Deliver(c) ==
    /\ ~exited
    /\ Subscribed(c) /\ ~closed[c]
    /\ SumLen(arrived, Callers) < MaxDeliveries
    /\ LET d == SumLen(arrived, Callers) + 1
       IN  /\ events' = [events EXCEPT ![c] = Append(@, d)]
           /\ arrived' = [arrived EXCEPT ![c] = Append(@, d)]
    /\ UNCHANGED <<exited, dials, ops, call, overlap, uuids, closed, loop, running, invoked>>
    /\ UNCHANGED connVars
    /\ UNCHANGED sessionVars

\* the channel or connection of call c goes down: eventsChan is closed
CloseEvents(c) ==
    /\ ~exited
    /\ Registered(c) /\ ~closed[c]
    /\ closed' = [closed EXCEPT ![c] = TRUE]
    /\ UNCHANGED <<exited, dials, ops, call, overlap, uuids, events, loop, running, arrived, invoked>>
    /\ UNCHANGED connVars
    /\ UNCHANGED sessionVars

\* the goroutine is at the head of "for i := range eventsChan"
AtRange(c) == loop[c] = "recv"

\* a receive that would take the newest delivery instead of the oldest
ReceiveNewest(ch) == [item |-> ch[Len(ch)], rest |-> SubSeq(ch, 1, Len(ch) - 1)]

\* what "range eventsChan" yields: the oldest delivery, and the rest
Receive(ch) == [item |-> Head(ch), rest |-> Tail(ch)]

\* one iteration of the loop begins: callback(i)
LoopReceive(c) ==
    /\ ~exited
    /\ AtRange(c)
    /\ events[c] # << >>
    /\ LET r == Receive(events[c])
       IN  /\ events' = [events EXCEPT ![c] = r.rest]
           /\ invoked' = [invoked EXCEPT ![c] = Append(@, r.item)]
    /\ running' = [running EXCEPT ![c] = @ + 1]
    /\ loop' = [loop EXCEPT ![c] = "callback"]
    /\ UNCHANGED <<exited, dials, ops, call, overlap, uuids, closed, arrived>>
    /\ UNCHANGED connVars
    /\ UNCHANGED sessionVars

\* callback(i) returns
CallbackReturn(c) ==
    /\ ~exited
    /\ running[c] > 0
    /\ running' = [running EXCEPT ![c] = @ - 1]
    /\ loop' = [loop EXCEPT ![c] = IF running[c] = 1 THEN "recv" ELSE @]
    /\ UNCHANGED <<exited, dials, ops, call, overlap, uuids, events, closed, arrived, invoked>>
    /\ UNCHANGED connVars
    /\ UNCHANGED sessionVars

\* a range loop that would end as soon as no delivery is waiting
LoopExitWhenIdle(c) ==
    /\ ~exited
    /\ loop[c] = "recv"
    /\ events[c] = << >>
    /\ loop' = [loop EXCEPT ![c] = "exited"]
    /\ UNCHANGED <<env, args, made, conn, exited, dials, ops, call, overlap, uuids,
                   events, closed, running, arrived, invoked, touchedAt>>

\* eventsChan is closed and drained: the range loop ends
LoopExit(c) ==
    /\ ~exited
    /\ loop[c] = "recv"
    /\ events[c] = << >> /\ closed[c]
    /\ loop' = [loop EXCEPT ![c] = "exited"]
    /\ UNCHANGED <<exited, dials, ops, call, overlap, uuids, events, closed, running, arrived, invoked>>
    /\ UNCHANGED connVars
    /\ UNCHANGED sessionVars

\* a method of the session handle that Consume call c returned is called:
\* the body is empty
SessionCall(c) ==
    /\ ~exited
    /\ call[c].pc = "returned"
    /\ touchedAt' = [touchedAt EXCEPT ![c] = IF @ = -1 THEN Len(arrived[c]) ELSE @]
    /\ UNCHANGED <<exited, dials, ops, call, overlap, uuids>>
    /\ UNCHANGED connVars
    /\ UNCHANGED loopVars

\* pq.Pause()
Pause(c) == SessionCall(c)

\* pq.Delete()
Delete(c) == SessionCall(c)

\* pq.Resume()
Resume(c) == SessionCall(c)

\* Close as it would be if it ended the session's delivery sequence
CloseQueueClosing(c) ==
    /\ ~exited
    /\ call[c].pc = "returned"
    /\ touchedAt' = [touchedAt EXCEPT ![c] = IF @ = -1 THEN Len(arrived[c]) ELSE @]
    /\ closed' = [closed EXCEPT ![c] = TRUE]
    /\ UNCHANGED <<exited, dials, ops, call, overlap, uuids,
                   events, loop, running, arrived, invoked>>
    /\ UNCHANGED connVars

\* pq.Close()
CloseQueue(c) == SessionCall(c)

\* ------------------------------------------------------------------------
\* Specifications
\* ------------------------------------------------------------------------

InitRest ==
    /\ made = FALSE
    /\ conn = ZeroConn
    /\ exited = FALSE
    /\ dials = 0
    /\ ops = [c \in Callers |-> << >>]
    /\ call = [c \in Callers |-> IdleCall]
    /\ overlap = FALSE
    /\ uuids = 0
    /\ events = [c \in Callers |-> << >>]
    /\ closed = [c \in Callers |-> FALSE]
    /\ loop = [c \in Callers |-> "none"]
    /\ running = [c \in Callers |-> 0]
    /\ arrived = [c \in Callers |-> << >>]
    /\ invoked = [c \in Callers |-> << >>]
    /\ touchedAt = [c \in Callers |-> -1]

InitResolve ==
    /\ env \in EnvSets
    /\ args \in ArgSets
    /\ InitRest

NextResolve == Create

\* NewConnection applied to every argument triple and environment
SpecResolve == InitResolve /\ [][NextResolve]_vars

Init ==
    /\ env \in ConsumeEnvSets
    /\ args \in ConsumeArgSets
    /\ InitRest

\* the steps of the broker, of the delivery goroutines and of a Consume call
\* after its first
Proceed ==
    \/ \E c \in Callers : Dial(c)
    \/ \E c \in Callers, ok \in BOOLEAN : Connect(c, ok)
    \/ \E c \in Callers : Channel(c)
    \/ \E c \in Callers, ok \in BOOLEAN : OpenChannel(c, ok)
    \/ \E c \in Callers : ExchangeDeclarePassive(c)
    \/ \E c \in Callers, ok \in BOOLEAN : DeclareExchange(c, ok)
    \/ \E c \in Callers : QueueDeclare(c)
    \/ \E c \in Callers, ok \in BOOLEAN : DeclareQueue(c, ok)
    \/ \E c \in Callers : Fatal(c)
    \/ \E c \in Callers : Panic(c)
    \/ \E c \in Callers : LogBinding(c)
    \/ \E c \in Callers : QueueBind(c)
    \/ \E c \in Callers, ok \in BOOLEAN : BindQueue(c, ok)
    \/ \E c \in Callers : ChannelConsume(c)
    \/ \E c \in Callers, ok \in BOOLEAN : RegisterConsumer(c, ok)
    \/ \E c \in Callers : StartLoop(c)
    \/ \E c \in Callers : Return(c)
    \/ \E c \in Callers : Deliver(c)
    \/ \E c \in Callers : CloseEvents(c)
    \/ \E c \in Callers : LoopReceive(c)
    \/ \E c \in Callers : CallbackReturn(c)
    \/ \E c \in Callers : LoopExit(c)

Next ==
    \/ Create
    \/ \E c \in Callers, in \in ConsumeInputs :
          ConsumeBegin(c, in.queueName, in.bindings, in.autoAck)
    \/ Proceed

\* one process: NewConnection, then Consume calls in any interleaving, the
\* broker's answers and deliveries chosen freely. The methods of the session
\* handles change nothing: they are among the stuttering steps.
Spec == Init /\ [][Next]_vars

NextURL ==
    \/ Create
    \/ \E url \in SetUrls : SetURL(url)
    \/ \E c \in Callers, in \in SessionInputs :
          ConsumeBegin(c, in.queueName, in.bindings, in.autoAck)
    \/ Proceed

\* the same process with SetURL called at any time, in any goroutine
SpecURL == Init /\ [][NextURL]_vars

NextSession ==
    \/ Create
    \/ \E c \in Callers, in \in SessionInputs :
          ConsumeBegin(c, in.queueName, in.bindings, in.autoAck)
    \/ Proceed
    \/ \E c \in Callers : Pause(c)
    \/ \E c \in Callers : Delete(c)
    \/ \E c \in Callers : Resume(c)
    \/ \E c \in Callers : CloseQueue(c)

\* the same process with the calls of the session methods recorded
SpecSession == Init /\ [][NextSession]_vars

\* the delivery goroutine of call c is scheduled whenever it can take a step
LoopFairness(c) ==
    /\ WF_vars(LoopReceive(c))
    /\ WF_vars(LoopExit(c))

\* every invocation of the callback of call c returns
CallbackFairness(c) == WF_vars(CallbackReturn(c))

\* the same process with delivery goroutines that are scheduled and callbacks
\* that return
SpecLoop ==
    /\ Init
    /\ [][NextSession]_vars
    /\ \A c \in Callers : LoopFairness(c) /\ CallbackFairness(c)

\* ------------------------------------------------------------------------
\* Properties of Consume
\* ------------------------------------------------------------------------

\* what identifies a broker operation within its call
Step(op, exchange, key) == [op |-> op, exchange |-> exchange, key |-> key]

\* the operations Consume call c has issued, in order
IssuedSteps(c) ==
    [n \in 1..Len(ops[c]) |-> Step(ops[c][n].op, ops[c][n].exchange, ops[c][n].key)]

\* the operations a complete Consume call c issues, in order
ExpectedSteps(c) ==
    LET bs == call[c].bindings
    IN  (IF call[c].sawConnected THEN << >> ELSE <<Step("Dial", << >>, << >>)>>)
        \o <<Step("Channel", << >>, << >>)>>
        \o [i \in 1..Len(bs) |-> Step("ExchangeDeclarePassive", bs[i].en, << >>)]
        \o <<Step("QueueDeclare", << >>, << >>)>>
        \o [i \in 1..Len(bs) |-> Step("QueueBind", bs[i].en, bs[i].rk)]
        \o <<Step("Consume", << >>, << >>)>>

IsPrefix(s, t) == Len(s) <= Len(t) /\ SubSeq(t, 1, Len(s)) = s

\* every operation of call c was issued and succeeded
SetupDone(c) ==
    /\ IssuedSteps(c) = ExpectedSteps(c)
    /\ \A n \in 1..Len(ops[c]) : ops[c][n].ok

\* C1: the operations of every Consume call are issued in the order dial
\* (only when the call found the connection not connected), channel, one
\* passive topic-exchange declare per binding, queue declare, one bind per
\* binding, consume; each is issued only after all before it succeeded, and
\* the delivery loop runs and the callback is invoked only after the consume
\* registration succeeded (the broker delivers only to a call all of whose
\* operations before the consume registration succeeded).
SetupOrder ==
    \A c \in Callers :
        /\ IsPrefix(IssuedSteps(c), ExpectedSteps(c))
        /\ \A n \in 1..Len(ops[c]) :
              /\ n < Len(ops[c]) => ops[c][n].ok
              /\ ops[c][n].op = "ExchangeDeclarePassive" => ops[c][n].kind = "topic"
        /\ (loop[c] # "none" \/ invoked[c] # << >>) => SetupDone(c)
        /\ arrived[c] # << >> =>
              /\ Len(ops[c]) >= Len(ExpectedSteps(c)) - 1
              /\ \A n \in 1..Len(ops[c]) : ops[c][n].ok

\* a call that dialed and had two bindings has had its callback invoked
SetupOrderWitness ==
    \E c \in Callers :
        /\ Len(call[c].bindings) = 2
        /\ OpsOf(c, "Dial") # {}
        /\ Len(ops[c]) = 8
        /\ invoked[c] # << >>

\* C2: a failed operation is the last one of its call: the call is in
\* log.Fatalf, which nothing keeps from ending the process and from which
\* the call never comes back; it issues no further operation, does not
\* return, starts no delivery loop and its callback is not invoked; once the
\* process has ended nothing happens any more; a call returns only after all
\* its operations succeeded.
NoPartialSetup ==
    /\ [](\A c \in Callers :
            /\ \A n \in 1..Len(ops[c]) :
                  ~ops[c][n].ok =>
                      /\ n = Len(ops[c])
                      /\ call[c].pc = "fatal"
                      /\ exited \/ ENABLED Fatal(c)
                      /\ loop[c] = "none"
                      /\ invoked[c] = << >>
            /\ call[c].pc = "returned" => SetupDone(c))
    /\ [][ \A c \in Callers :
             call[c].pc = "fatal" => (call'[c] = call[c] /\ ops'[c] = ops[c]) ]_vars
    /\ [][ exited => UNCHANGED vars ]_vars

\* a bind failed after the exchange and queue declares succeeded, while
\* another call had returned
NoPartialSetupWitness ==
    \E c, b \in Callers :
        /\ exited
        /\ ops[c] # << >>
        /\ ops[c][Len(ops[c])].op = "QueueBind"
        /\ ~ops[c][Len(ops[c])].ok
        /\ call[b].pc = "returned"

\* C3: the callback of a session has been invoked with exactly the
\* deliveries that arrived and are no longer waiting, in arrival order, and
\* at most one invocation is in progress; after the loop has ended the
\* callback has been invoked once for every delivery that arrived.
DeliveryOrder ==
    \A c \in Callers :
        /\ arrived[c] = invoked[c] \o events[c]
        /\ running[c] <= 1
        /\ loop[c] = "exited" => invoked[c] = arrived[c]

\* two deliveries arrived on one session, both waited in eventsChan together
\* and both were handed to the callback
DeliveryOrderWitness ==
    \E c \in Callers :
        /\ Len(arrived[c]) = 2
        /\ invoked[c] = arrived[c]
        /\ loop[c] = "exited"

\* C4: as long as Consume has not been called, no broker operation has been
\* issued, the handle is nil and connected is false, also after
\* NewConnection and SetURL.
PureConstruction ==
    (\A c \in Callers : call[c].pc = "idle") =>
        /\ dials = 0
        /\ \A c \in Callers : ops[c] = << >>
        /\ conn.AMQPConn = Nil
        /\ ~conn.connected

\* NewConnection and SetURL have run, Consume has not
PureConstructionWitness ==
    /\ made
    /\ conn.URL \in SetUrls
    /\ \A c \in Callers : call[c].pc = "idle"

\* C5: when Consume calls do not overlap, the broker is dialed once, by the
\* first call and by no other, connected is true exactly from the successful
\* dial on, and every call opens its channel on the handle of that dial.
DialOnce ==
    /\ conn.connected <=> \E c \in Callers : \E n \in OpsOf(c, "Dial") : ops[c][n].ok
    /\ ~overlap =>
          /\ dials <= 1
          /\ (\E c \in Callers : call[c].pc \notin {"idle", "dial", "dialing"}) => dials = 1
          /\ \A c \in Callers :
                call[c].pc \in {"dial", "dialing"} => (c = 1 /\ dials = 0)
          /\ \A c \in Callers : OpsOf(c, "Dial") # {} => c = 1
          /\ \A c \in Callers : \A n \in OpsOf(c, "Channel") :
                /\ ops[c][n].on = 1
                /\ ops[c][n].on = conn.AMQPConn
                /\ \E m \in OpsOf(1, "Dial") : ops[1][m].ok /\ ops[1][m].on = 1

\* two calls, one after the other, have both returned
DialOnceWitness ==
    /\ ~overlap
    /\ dials = 1
    /\ \A c \in 1..2 : call[c].pc = "returned"
    /\ OpsOf(2, "Channel") # {}

\* the exchange names the bindings of call c refer to
ExchangesOf(c) == {call[c].bindings[i].en : i \in 1..Len(call[c].bindings)}

\* the passive declares of exchange x among the operations of call c
DeclaresOf(c, x) == {n \in OpsOf(c, "ExchangeDeclarePassive") : ops[c][n].exchange = x}

\* the (routing key, exchange) pairs call c has bound its queue to, in order
BindsOf(c) ==
    LET binds == SelectSeq(ops[c], LAMBDA o : o.op = "QueueBind")
    IN  [n \in 1..Len(binds) |-> Bind(binds[n].key, binds[n].exchange)]

\* call c has left the exchange loop
ExchangesDeclared(c) == OpsOf(c, "QueueDeclare") # {}

\* call c has left the bind loop
QueueBound(c) == OpsOf(c, "Consume") # {}

\* C11 (as stated): a call that has bound its queue has issued one bind per
\* binding, for that binding's (routing key, exchange) pair, and has
\* passively declared every exchange its bindings name exactly once.
BindingFanOutDistinct ==
    \A c \in Callers :
        /\ QueueBound(c) => BindsOf(c) = call[c].bindings
        /\ ExchangesDeclared(c) =>
              \A x \in ExchangesOf(c) : Cardinality(DeclaresOf(c, x)) = 1

\* C11 (amended): a call that has bound its queue has issued one bind per
\* binding, for that binding's (routing key, exchange) pair and on the queue
\* the call declared, and has passively declared one exchange per binding:
\* an exchange is declared as many times as there are bindings that name it.
BindingFanOut ==
    \A c \in Callers :
        /\ QueueBound(c) =>
              /\ BindsOf(c) = call[c].bindings
              /\ \A n \in OpsOf(c, "QueueBind") : ops[c][n].name = call[c].q
        /\ ExchangesDeclared(c) =>
              /\ Cardinality(OpsOf(c, "ExchangeDeclarePassive")) = Len(call[c].bindings)
              /\ \A x \in ExchangesOf(c) :
                    Cardinality(DeclaresOf(c, x)) =
                        Cardinality({i \in 1..Len(call[c].bindings) : call[c].bindings[i].en = x})

\* a call whose two bindings name one exchange has bound its queue twice and
\* declared that exchange twice
BindingFanOutWitness ==
    \E c \in Callers :
        /\ QueueBound(c)
        /\ Len(call[c].bindings) = 2
        /\ Cardinality(ExchangesOf(c)) = 1
        /\ Cardinality(OpsOf(c, "QueueBind")) = 2
        /\ Cardinality(OpsOf(c, "ExchangeDeclarePassive")) = 2

\* the queue declares among the operations of call c
QueueDeclares(c) == OpsOf(c, "QueueDeclare")

\* C12: a call with a non-empty queueName declares the queue
\* queue/<user>/<queueName>, so two calls with the same queueName declare the
\* same name; a call with an empty queueName declares queue/<user>/<uuid>
\* for a uuid generated by this process, and no two calls with an empty
\* queueName declare the same name.
QueueNaming ==
    \A c \in Callers : \A n \in QueueDeclares(c) :
        /\ call[c].queueName # << >> =>
              ops[c][n].name = QueuePrefix \o conn.User \o <<"/">> \o call[c].queueName
        /\ call[c].queueName = << >> =>
              /\ \E k \in 1..uuids :
                    ops[c][n].name = QueuePrefix \o conn.User \o <<"/">> \o Uuid(k)
              /\ \A b \in Callers \ {c} : \A m \in QueueDeclares(b) :
                    call[b].queueName = << >> => ops[b][m].name # ops[c][n].name
        /\ \A b \in Callers : \A m \in QueueDeclares(b) :
              (call[b].queueName = call[c].queueName /\ call[c].queueName # << >>)
                  => ops[b][m].name = ops[c][n].name

\* two calls with an empty queueName have declared their queues
QueueNamingWitness ==
    \E c, b \in Callers :
        /\ c # b
        /\ call[c].queueName = << >> /\ call[b].queueName = << >>
        /\ QueueDeclares(c) # {} /\ QueueDeclares(b) # {}

\* C13: every queue declare is exclusive and auto-delete exactly when the
\* call's queueName is empty, and never durable or no-wait.
QueueLifetime ==
    \A c \in Callers : \A n \in QueueDeclares(c) :
        /\ ops[c][n].exclusive <=> call[c].queueName = << >>
        /\ ops[c][n].autoDelete <=> call[c].queueName = << >>
        /\ ~ops[c][n].durable
        /\ ~ops[c][n].noWait

\* one call has declared a generated-name queue and another a named queue
QueueLifetimeWitness ==
    \E c, b \in Callers :
        /\ call[c].queueName = << >> /\ call[b].queueName # << >>
        /\ \E n \in QueueDeclares(c) : ops[c][n].exclusive /\ ops[c][n].autoDelete
        /\ \E m \in QueueDeclares(b) : ~ops[b][m].exclusive /\ ~ops[b][m].autoDelete

\* the step is the one in which call c reads c.URL and calls amqp.Dial
IssuesDial(c) == call[c].pc = "dial" /\ call'[c].pc = "dialing"

\* the step is the one in which the dial of call c returns
DialReturns(c) ==
    /\ Len(ops'[c]) = Len(ops[c]) + 1
    /\ ops'[c][Len(ops'[c])].op = "Dial"

\* no SetURL has written c.URL since call c was entered
URLSettled(c) == call[c].urls = {conn.URL}

\* the URLs the process has dialed
DialedUrls == UNION {{ops[c][n].name : n \in OpsOf(c, "Dial")} : c \in Callers}

\* call c has read connected = false and has yet to read c.URL: its dial can
\* go to the URL stored
CanStillDial(c) == call[c].pc = "dial" /\ conn.URL \in call[c].urls

\* C14 (as stated): a SetURL step stores the given URL and a dial that no
\* SetURL runs alongside uses the URL stored when it is issued, so a SetURL
\* before the first dial decides what that dial uses; once the connection
\* has been dialed a SetURL changes nothing the broker sees: the URL it
\* stores is one that no call goes on to dial.
SetURLTiming ==
    [][ /\ (made /\ conn'.URL # conn.URL) => conn'.URL \in SetUrls
        /\ \A c \in Callers :
              /\ (IssuesDial(c) /\ URLSettled(c)) => call'[c].url = conn.URL
              /\ DialReturns(c) => ops'[c][Len(ops'[c])].name = call[c].url
              /\ (conn.connected /\ conn'.URL # conn.URL) => ~CanStillDial(c)' ]_vars

\* what NewConnection returns for the arguments and environments of the runs
\* that go on to Consume
ResolvedFor ==
    [a \in ConsumeArgSets, e \in ConsumeEnvSets |->
        NewConnection(a.user, a.password, a.url, e)]

\* what NewConnection returned in this run
Resolved == ResolvedFor[args, env]

\* C20: after any number of SetURL calls User and Password are those
\* NewConnection resolved and URL is the one NewConnection built or the one
\* last given, unchanged; a dial that no SetURL runs alongside goes to the
\* URL stored, as it stands, and every queue is declared under
\* queue/<user resolved at creation>/.
SetURLOnlyURL ==
    /\ [](made =>
            /\ conn.User = Resolved.User
            /\ conn.Password = Resolved.Password
            /\ conn.URL \in {Resolved.URL} \cup SetUrls
            /\ \A c \in Callers : \A n \in OpsOf(c, "QueueDeclare") :
                  IsPrefix(QueuePrefix \o Resolved.User \o <<"/">>, ops[c][n].name))
    /\ [][ \A c \in Callers :
             /\ (IssuesDial(c) /\ URLSettled(c)) => call'[c].url = conn.URL
             /\ DialReturns(c) => ops'[c][Len(ops'[c])].name = call[c].url ]_vars

\* after SetURL with a URL that embeds the credentials u:p, the dial went to
\* that URL and a queue was declared under the user resolved at creation
SetURLOnlyURLWitness ==
    \E c \in Callers :
        /\ conn.URL \in SetUrls
        /\ MatchString(reUsername, conn.URL)
        /\ match(reUsername, conn.URL) # conn.User
        /\ \E n \in OpsOf(c, "Dial") : ops[c][n].name = conn.URL /\ ops[c][n].ok
        /\ \E n \in OpsOf(c, "QueueDeclare") : ops[c][n].ok

\* everything but the record of the session method calls
programVars ==
    <<env, args, made, conn, exited, dials, ops, call, overlap, uuids,
      events, closed, loop, running, arrived, invoked>>

\* a method of the session handle of call c has been called
Touched(c) == touchedAt[c] >= 0

\* C15: a step that calls Pause, Resume, Delete or Close, the first time or
\* again, issues no broker operation and changes nothing of the program's
\* state; on a session whose methods have been called every delivery that
\* arrived has been handed to the callback or is waiting, in arrival order,
\* and a waiting delivery is handed to the callback as soon as the loop is
\* back at its range.
SessionInert ==
    /\ [][ touchedAt' # touchedAt => UNCHANGED programVars ]_vars
    /\ [](\A c \in Callers :
            (Touched(c) /\ ~exited) =>
                /\ arrived[c] = invoked[c] \o events[c]
                /\ (AtRange(c) /\ events[c] # << >>) => ENABLED LoopReceive(c)
                /\ loop[c] = "exited" => closed[c])

\* a session method was called before any delivery had arrived, and the two
\* deliveries that arrived afterwards were handed to the callback
SessionInertWitness ==
    \E c \in Callers :
        /\ touchedAt[c] = 0
        /\ Len(arrived[c]) = 2
        /\ invoked[c] = arrived[c]

\* the Consume calls that have returned their session handle
Returned == {c \in Callers : call[c].pc = "returned"}

\* the deliveries in the sequence s
Range(s) == {s[n] : n \in 1..Len(s)}

\* C16 (as stated): every call that has returned has opened one channel and
\* started one delivery loop, no two calls share a channel, all the channels
\* are on the one connection handle the process has dialed, a loop hands its
\* callback only deliveries of its own subscription, and a delivery waiting
\* at the range of one loop is handed over whatever the callbacks of the
\* other sessions do.
OwnChannelOwnLoop ==
    /\ \A c \in Returned :
          /\ Cardinality(OpsOf(c, "Channel")) = 1
          /\ call[c].ch # Nil
          /\ loop[c] # "none"
          /\ \A b \in Returned \ {c} : call[b].ch # call[c].ch
    /\ Returned # {} =>
          /\ Cardinality(Handles) = 1
          /\ \A c \in Returned : \A n \in OpsOf(c, "Channel") : ops[c][n].on \in Handles
    /\ \A c \in Callers :
          /\ Range(invoked[c]) \subseteq Range(arrived[c])
          /\ \A b \in Callers \ {c} : Range(invoked[c]) \cap Range(arrived[b]) = {}
          /\ (~exited /\ AtRange(c) /\ events[c] # << >>) => ENABLED LoopReceive(c)

\* C17: every call that read connected = false dials the broker, also when
\* another call has dialed in between, and a call that read true does not;
\* each successful dial that returns stores its handle over the one stored
\* before, whichever was issued first (a failed dial stores what amqp.Dial
\* returned with the error: nil or the connection that failed), so that the
\* handle stored is nil or that of the dial that returned last; two dials
\* happen only when calls overlap.
FirstConnectRace ==
    /\ [](\A c \in Callers :
            /\ (call[c].pc \notin {"idle", "dial", "dialing"} /\ ~call[c].sawConnected)
                  => Cardinality(OpsOf(c, "Dial")) = 1
            /\ call[c].sawConnected => OpsOf(c, "Dial") = {}
            /\ \A n \in OpsOf(c, "Dial") : ops[c][n].on \in 1..dials)
    /\ [](dials = Cardinality({c \in Callers : OpsOf(c, "Dial") # {}}))
    /\ [](conn.AMQPConn \in {Nil, dials})
    /\ [](conn.AMQPConn = Nil =>
            \A c \in Callers : \A n \in OpsOf(c, "Dial") : ops[c][n].on = dials => ~ops[c][n].ok)
    /\ [](dials > 1 => overlap)
    /\ [][ \A c \in Callers :
             /\ (call[c].pc = "dial" /\ call'[c].pc # "dial") => IssuesDial(c)
             /\ DialReturns(c) =>
                   conn'.AMQPConn \in IF ops'[c][Len(ops'[c])].ok
                                      THEN {ops'[c][Len(ops'[c])].on}
                                      ELSE {Nil, ops'[c][Len(ops'[c])].on} ]_vars

\* two calls have both dialed with success, the call entered second getting
\* its handle first: the handle stored is that of the call entered first,
\* and each call has opened its channel on its own
FirstConnectRaceWitness ==
    \E c, b \in Callers :
        /\ c < b
        /\ dials = 2
        /\ \E n \in OpsOf(b, "Dial") : ops[b][n].on = 1 /\ ops[b][n].ok
        /\ \E n \in OpsOf(c, "Dial") : ops[c][n].on = 2 /\ ops[c][n].ok
        /\ conn.AMQPConn = 2
        /\ \E n \in OpsOf(b, "Channel") : ops[b][n].on = 1
        /\ \E n \in OpsOf(c, "Channel") : ops[c][n].on = 2

\* C18: once the consume registration has succeeded the call issues no
\* further broker operation and can take its next step, starting the loop and
\* then returning, in every state: with no delivery, with deliveries waiting
\* and with a callback invocation in progress; after the return a delivery
\* waiting at the range of the loop is still handed to the callback.
ReturnsAtOnce ==
    \A c \in Callers :
        /\ call[c].pc \in {"go", "return", "returned"} => SetupDone(c)
        /\ (~exited /\ call[c].pc = "go") => ENABLED StartLoop(c)
        /\ (~exited /\ call[c].pc = "return") => ENABLED Return(c)
        /\ (~exited /\ call[c].pc = "returned" /\ AtRange(c) /\ events[c] # << >>)
              => ENABLED LoopReceive(c)
        /\ call[c].pc = "returned" => loop[c] # "none"

\* one call is about to return while its callback is being invoked, and
\* another has returned though no delivery has arrived for it
ReturnsAtOnceWitness ==
    \E c, b \in Callers :
        /\ call[c].pc = "return" /\ running[c] = 1
        /\ call[b].pc = "returned" /\ arrived[b] = << >>

\* C19: a loop that has exited had its delivery sequence closed and has
\* handed every delivery that arrived to the callback, whether or not the
\* methods of the session handle were called; an exited loop stays exited
\* and invokes the callback no more; and when the goroutine is scheduled and
\* every invocation returns, a started loop whose sequence is closed
\* eventually exits, unless the process ends first.
LoopLifetime ==
    /\ [](\A c \in Callers :
            loop[c] = "exited" =>
                /\ closed[c]
                /\ events[c] = << >>
                /\ running[c] = 0
                /\ invoked[c] = arrived[c])
    /\ [][ \A c \in Callers :
             loop[c] = "exited" => (loop'[c] = "exited" /\ invoked'[c] = invoked[c]) ]_vars
    /\ \A c \in Callers :
          (closed[c] /\ loop[c] # "none") ~> (loop[c] = "exited" \/ exited)

\* a loop has exited after its sequence was closed with two deliveries in it,
\* on a session whose methods had been called while the loop ran
LoopLifetimeWitness ==
    \E c \in Callers :
        /\ loop[c] = "exited"
        /\ Len(invoked[c]) = 2
        /\ touchedAt[c] \in {0, 1}

\* ------------------------------------------------------------------------
\* Properties of NewConnection
\* ------------------------------------------------------------------------

RECURSIVE FirstNonEmpty(_)
\* the first element of a sequence of strings that is not ""
FirstNonEmpty(ss) ==
    IF Len(ss) = 0 THEN << >>
    ELSE IF Head(ss) # << >> THEN Head(ss) ELSE FirstNonEmpty(Tail(ss))

\* the URL that NewConnection reads credentials from and rewrites
GivenURL == IF args.url = << >> THEN DefaultURL ELSE args.url

\* s has none of the characters in cs
Without(s, cs) == \A n \in 1..Len(s) : s[n] \notin cs

\* C6: the user is the first non-empty of the argument, the user the
\* username pattern finds in the URL, PULSE_USERNAME and "guest"; the
\* password likewise, independently of the user; neither is empty.
CredentialChain ==
    made =>
        /\ conn.User = FirstNonEmpty(<<args.user, match(reUsername, GivenURL),
                                       Getenv(env, "PULSE_USERNAME"), Guest>>)
        /\ conn.Password = FirstNonEmpty(<<args.password, match(rePassword, GivenURL),
                                           Getenv(env, "PULSE_PASSWORD"), Guest>>)
        /\ conn.User # << >>
        /\ conn.Password # << >>

\* NewConnection("b", "", "s://a:a@a") with PULSE_PASSWORD set: the user is
\* the argument and the password is the one in the URL
CredentialChainWitness ==
    /\ made
    /\ args.user = <<"b">> /\ args.password = << >>
    /\ args.url = Scheme \o <<"a", ":", "a", "@", "a">>
    /\ Getenv(env, "PULSE_PASSWORD") = <<"e">>
    /\ conn.User = <<"b">> /\ conn.Password = <<"a">>

\* the given URL read as s://U:P@H with ":" at i and "@" at j of the text
\* after the scheme
UrlParts(i, j) ==
    LET t == Drop(args.url, Len(Scheme) + 1)
    IN  [U |-> SubSeq(t, 1, i - 1), P |-> SubSeq(t, i + 1, j - 1), H |-> Drop(t, j + 1)]

\* the given URL is s://U:P@H that way: U and P are not empty, U has no
\* ":", "@" or "/", and P and H have no "@"
HasUrlParts(i, j) ==
    LET t == Drop(args.url, Len(Scheme) + 1)
        p == UrlParts(i, j)
    IN  /\ IsPrefix(Scheme, args.url)
        /\ 1 < i /\ i + 1 < j /\ j <= Len(t)
        /\ t[i] = ":" /\ t[j] = "@"
        /\ Without(p.U, {":", "@", "/"})
        /\ Without(p.P, {"@"})
        /\ Without(p.H, {"@"})

\* C7 as claimed: with empty user and password arguments and a URL
\* s://U:P@H with a host H, the user is U and the password is P, whatever
\* characters P contains.
UrlCredentialsAny ==
    (made /\ args.user = << >> /\ args.password = << >>) =>
        \A i, j \in 1..Len(args.url) :
            ( /\ HasUrlParts(i, j)
              /\ UrlParts(i, j).H # << >>
              /\ Head(UrlParts(i, j).H) \notin {":", "/"} )
            => conn.User = UrlParts(i, j).U /\ conn.Password = UrlParts(i, j).P

\* C7 as amended: with empty user and password arguments and a URL
\* s://U:P@H where P has no "/", the user is U and the password is P.
UrlCredentials ==
    (made /\ args.user = << >> /\ args.password = << >>) =>
        \A i, j \in 1..Len(args.url) :
            (HasUrlParts(i, j) /\ Without(UrlParts(i, j).P, {"/"}))
            => conn.User = UrlParts(i, j).U /\ conn.Password = UrlParts(i, j).P

\* NewConnection("", "", "s://u:p@h/v") with both environment variables set
\* resolves to u and p
UrlCredentialsWitness ==
    /\ made
    /\ args.user = << >> /\ args.password = << >>
    /\ args.url = Scheme \o <<"u", ":", "p", "@", "h", "/", "v">>
    /\ Getenv(env, "PULSE_USERNAME") = <<"e">>
    /\ Getenv(env, "PULSE_PASSWORD") = <<"e">>
    /\ conn.User = <<"u">> /\ conn.Password = <<"p">>

\* the url argument is "" or one of the sample URLs
PlainURL == args.url = << >> \/ args.url \in SampleUrls

\* C8: the returned URL is the given one with the resolved user:password@
\* put right after "://" in place of the credentials that were there, if
\* any, and everything else kept (stated for the default and the sample
\* URLs).
RewrittenURL ==
    (made /\ PlainURL) =>
        \E k \in 0..Len(GivenURL), m \in 0..Len(GivenURL) :
            LET pre  == SubSeq(GivenURL, 1, k)
                mid  == SubSeq(GivenURL, k + 1, m)
                post == Drop(GivenURL, m + 1)
            IN  /\ k >= 3 /\ k <= m
                /\ SubSeq(pre, k - 2, k) = <<":", "/", "/">>
                /\ mid = << >> \/ mid[Len(mid)] = "@"
                /\ conn.URL = pre \o conn.User \o <<":">> \o conn.Password \o <<"@">> \o post

\* C9: the patterns find the resolved user and password in the returned
\* URL, and NewConnection("", "", c.URL) resolves to the same two (stated
\* for the default and the sample URLs).
RoundTrip ==
    (made /\ PlainURL) =>
        /\ match(reUsername, conn.URL) = conn.User
        /\ match(rePassword, conn.URL) = conn.Password
        /\ NewConnection(<< >>, << >>, conn.URL, env).User = conn.User
        /\ NewConnection(<< >>, << >>, conn.URL, env).Password = conn.Password

\* C10: with an empty url argument the returned URL is
\* amqps://<user>:<password>@pulse.mozilla.org:5671.
DefaultURLForm ==
    (made /\ args.url = << >>) =>
        conn.URL = SubSeq(DefaultURL, 1, 8) \o conn.User \o <<":">> \o conn.Password
                   \o <<"@">> \o Drop(DefaultURL, 9)

====
